---- MODULE Spec2Model ----
(***************************************************************************)
(* Model of the cal_cad command-line tools: cal_fine.py (hybrid exact /    *)
(* voxel volume), voxel1.py (voxel-only volume), test.py (per-face STL     *)
(* export and viewer) and cal_box.py (bounding-box volume).                *)
(*                                                                         *)
(* One behaviour is one invocation of one tool.  The geometry kernel and   *)
(* the mesh library are external: what they return is drawn from small     *)
(* sets at the step where the code calls them, and every call is appended  *)
(* to the log `calls`.  Floats are modelled as exact decimals m * 10^(-e). *)
(***************************************************************************)
EXTENDS Integers, Sequences, FiniteSets

\* ---------------------------------------------------------------- bounds
MaxSolids == 2
MaxShells == 2
MaxCells  == 3
MaxPoints == 2
MaxFaces  == 2
MaxPicks  == 2

\* ------------------------------------------------------- input alphabets
Tools  == {"cal_fine", "voxel1", "test", "cal_box"}
Paths  == {"a.step", "b.STEP"}
Units  == {"mm3", "cm3", "m3"}
Masses == {-600, 600}     \* GProp_GProps.Mass() of a solid, in mm^3
Boxes  == {<<0, 0, 0, 0, 0, 0>>, <<-5, 0, 0, 5, 10, 10>>}  \* Bnd_Box.Get(), in mm
ReadStatuses == {"RetDone", "RetError", "RetFail"}

IFSelect_RetDone == "RetDone"

\* ------------------------------------------------------ decimal "floats"
Dec(m, e) == [m |-> m, e |-> e]

Pow10(n) == IF n = 0 THEN 1 ELSE IF n = 1 THEN 10 ELSE IF n = 2 THEN 100
            ELSE IF n = 3 THEN 1000 ELSE IF n = 4 THEN 10000
            ELSE IF n = 5 THEN 100000 ELSE 1000000

Mul(a, b) == Dec(a.m * b.m, a.e + b.e)

RECURSIVE Shift(_, _)
\* The mantissa of a at the (larger) exponent e.
Shift(a, e) == IF a.e >= e \/ a.m = 0 THEN a.m ELSE Shift(Dec(a.m * 10, a.e + 1), e)

Add(a, b) == LET e == IF a.e >= b.e THEN a.e ELSE b.e
             IN  Dec(Shift(a, e) + Shift(b, e), e)

RECURSIVE Chop(_, _)
\* The mantissa of a cut down (towards minus infinity) to exponent e.
Chop(a, e) == IF a.e <= e THEN a.m ELSE Chop(Dec(a.m \div 10, a.e - 1), e)

\* f"{x:.6f}": the number of millionths printed, x rounded to 6 decimals.
Fmt6(a) == IF a.e <= 6 THEN a.m * Pow10(6 - a.e)
           ELSE (Chop(a, 7) + 5) \div 10

UNIT == [mm3 |-> Dec(1, 0), cm3 |-> Dec(1, 3), m3 |-> Dec(1, 9)]

\* ----------------------------------------------------------------- state
VARIABLES
    tool,          \* which script runs
    args,          \* the parsed command line
    stepExists,    \* os.path.exists(args.step)
    pc,            \* position in the script
    hist,          \* the positions passed through, in order
    exitCode,      \* process exit status, -1 while running
    stdout,        \* lines printed to standard output
    stderr,        \* lines printed to standard error
    calls,         \* kernel / mesh-library / filesystem calls made, in order
    readStatus,    \* what STEPControl_Reader.ReadFile returned
    shape,         \* "none" or the loaded shape handle
    box,           \* Bnd_Box.Get(): <<xmin, ymin, zmin, xmax, ymax, zmax>>
    sewed,         \* sewer.SewedShape(): its solids and shells
    solids,        \* what sewing_to_solids returned
    makers,        \* the shells BRepBuilderAPI_MakeSolid was built on
    gprops,        \* props.Mass() of each solid, as the kernel computed it
    infos,         \* solids_volume(...)[0]
    total,         \* solids_volume(...)[1]
    tmp,           \* the TemporaryDirectory of shape_to_pv_mesh
    exc,           \* the exception in flight inside shape_to_pv_mesh
    mesh,          \* the PyVista mesh read back
    vox,           \* the voxel grid
    vol_mm3,       \* n_cells * pitch**3
    faces,         \* the faces TopExp_Explorer(shape, TopAbs_FACE) yields
    outDirExists,  \* whether args.out exists
    outFiles,      \* the files written into args.out, in order
    face_index,    \* export_step_faces_to_stl's counter
    out_filenames, \* export_step_faces_to_stl's result list
    viewer,        \* "none", "open" or "closed"
    actors,        \* the named actors of the plotter
    exp,           \* the faces the TopExp_Explorer has still to yield
    picks          \* the picked_mesh of each pick callback so far, in order

vars == <<tool, args, stepExists, pc, hist, exitCode, stdout, stderr, calls,
          readStatus, shape, box, sewed, solids, makers, gprops, infos,
          total, tmp, exc, mesh, vox, vol_mm3, faces, outDirExists, outFiles,
          face_index, out_filenames, viewer, actors, exp, picks>>

envVars    == <<tool, args, stepExists>>
loadVars   == <<readStatus, shape>>
exactVars  == <<sewed, solids, makers, gprops, infos, total>>
meshVars   == <<tmp, exc, mesh>>
voxVars    == <<vox, vol_mm3>>
exportVars == <<faces, exp, outDirExists, outFiles, face_index, out_filenames>>
viewVars   == <<viewer, actors, picks>>

NoTmp  == [dir |-> FALSE, stl |-> FALSE]
NoMesh == [n_points |-> -1]
NoVox  == [n_cells |-> -1]
NoSewed == [solids |-> <<>>, shells |-> <<>>]
highlight_actor_name == <<"highlight_actor">>

\* ------------------------------------------------------------ arguments
\* The values given for --step, --tol and --pitch: the defaults of cal_fine.py
\* with one path, and other values with another path.
Profiles == {[step |-> "a.step", tol |-> 5, pitch |-> 1],
             [step |-> "b.STEP", tol |-> 10, pitch |-> 2]}

\* argparse: the options each script declares; the others keep a fixed value.
ArgsOf(t) ==
    IF t = "cal_fine" THEN
        {[step |-> p.step, tol |-> p.tol, pitch |-> p.pitch, unit |-> u,
          show |-> sh, bbox |-> bb, out |-> "faces_out"] :
            p \in Profiles, u \in Units, sh \in BOOLEAN, bb \in BOOLEAN}
    ELSE IF t = "voxel1" THEN
        {[step |-> p.step, tol |-> 5, pitch |-> p.pitch, unit |-> u,
          show |-> sh, bbox |-> bb, out |-> "faces_out"] :
            p \in Profiles, u \in Units, sh \in BOOLEAN, bb \in BOOLEAN}
    ELSE IF t = "test" THEN
        [step : Paths, tol : {5}, pitch : {1}, unit : {"cm3"},
         show : {FALSE}, bbox : {FALSE}, out : {"faces_out", "o2"}]
    ELSE
        [step : Paths, tol : {5}, pitch : {1}, unit : Units,
         show : {FALSE}, bbox : {FALSE}, out : {"faces_out"}]

Init ==
    /\ tool \in Tools
    /\ args \in ArgsOf(tool)
    /\ stepExists \in BOOLEAN
    /\ pc = "start"
    /\ hist = <<"start">>
    /\ exitCode = -1
    /\ stdout = <<>>
    /\ stderr = <<>>
    /\ calls = <<>>
    /\ readStatus = "none"
    /\ shape = "none"
    /\ box = <<>>
    /\ sewed = NoSewed
    /\ solids = <<>>
    /\ makers = <<>>
    /\ gprops = <<>>
    /\ infos = <<>>
    /\ total = Dec(0, 0)
    /\ tmp = NoTmp
    /\ exc = "none"
    /\ mesh = NoMesh
    /\ vox = NoVox
    /\ vol_mm3 = -1
    /\ faces = <<>>
    /\ outDirExists \in (IF tool = "test" THEN BOOLEAN ELSE {FALSE})
    /\ outFiles = <<>>
    /\ face_index = 0
    /\ out_filenames = <<>>
    /\ viewer = "none"
    /\ actors = {}
    /\ exp = <<>>
    /\ picks = <<>>

\* ------------------------------------------------------- control helpers
Goto(p) == pc' = p /\ hist' = Append(hist, p)

\* sys.exit(code), or main() returning (code 0).
SysExit(code) == Goto("exit") /\ exitCode' = code

\* An exception nothing catches: the interpreter prints the traceback, whose
\* last line is the exception's message, and exits with status 1.
Uncaught(msg) == /\ SysExit(1)
                 /\ stderr' = Append(stderr, [tag |-> "Traceback", msg |-> msg])

Call(op, arg) == calls' = Append(calls, [op |-> op, arg |-> arg])

Emit(line) == stdout' = Append(stdout, line)

\* --------------------------------------------------- cal_fine.py helpers
\* Mutant: the status ReadFile returns is not looked at.
read_step_shape_NoStatusCheck(path, status) ==
    [raised |-> FALSE, msg |-> <<>>, value |-> "shape",
     calls |-> <<[op |-> "ReadFile", arg |-> path],
                 [op |-> "TransferRoots", arg |-> path]>>]

\* read_step_shape, given the status the kernel's ReadFile returns.
read_step_shape(path, status) ==
    IF status # IFSelect_RetDone
    THEN [raised |-> TRUE, msg |-> <<"STEP read failed: ", path>>,
          value |-> "none",
          calls |-> <<[op |-> "ReadFile", arg |-> path]>>]
    ELSE [raised |-> FALSE, msg |-> <<>>, value |-> "shape",
          calls |-> <<[op |-> "ReadFile", arg |-> path],
                      [op |-> "TransferRoots", arg |-> path]>>]

\* BRepBuilderAPI_MakeSolid(shell): IsDone() and Solid().
MakeSolid(shell) == [IsDone |-> shell.done,
                     Solid  |-> [kind |-> "made", id |-> shell.id]]

RECURSIVE SolidLoop(_, _)
\* while exp.More(): solids.append(exp.Current()); exp.Next()
SolidLoop(ex, acc) ==
    IF ex = <<>> THEN acc
    ELSE SolidLoop(Tail(ex), Append(acc, Head(ex)))

RECURSIVE ShellLoop_IgnoreIsDone(_, _)
\* Mutant: maker.Solid() is appended whether or not maker.IsDone().
ShellLoop_IgnoreIsDone(ex, st) ==
    IF ex = <<>> THEN st
    ELSE LET shell == Head(ex)
             maker == MakeSolid(shell)
         IN  ShellLoop_IgnoreIsDone(Tail(ex),
                 [solids |-> Append(st.solids, maker.Solid),
                  makers |-> Append(st.makers, shell)])

RECURSIVE ShellLoop(_, _)
\* while exp.More(): maker = MakeSolid(shell); if maker.IsDone(): append
ShellLoop(ex, st) ==
    IF ex = <<>> THEN st
    ELSE LET shell == Head(ex)
             maker == MakeSolid(shell)
         IN  ShellLoop(Tail(ex),
                 [solids |-> IF maker.IsDone
                             THEN Append(st.solids, maker.Solid)
                             ELSE st.solids,
                  makers |-> Append(st.makers, shell)])

\* sewing_to_solids on the sewn shape sw = sewer.SewedShape().
sewing_to_solids(sw) ==
    LET found == SolidLoop(sw.solids, <<>>)
    IN  IF found # <<>>
        THEN [solids |-> found, makers |-> <<>>]
        ELSE ShellLoop(sw.shells, [solids |-> <<>>, makers |-> <<>>])

\* props.CentreOfMass() of a solid: opaque, but tied to the solid.
CentreOfMass(solid) == <<"com", solid.kind, solid.id>>

RECURSIVE VolumeLoop_SignCorrected(_, _, _, _, _)
\* Mutant: a negative mass is turned positive before it is recorded.
VolumeLoop_SignCorrected(ss, mass, unit_scale, idx, st) ==
    IF idx >= Len(ss) THEN st
    ELSE LET solid == ss[idx + 1]
             m     == IF mass[idx + 1] < 0 THEN 0 - mass[idx + 1]
                                           ELSE mass[idx + 1]
             vm    == Mul(Dec(m, 0), unit_scale)
             com   == CentreOfMass(solid)
         IN  VolumeLoop_SignCorrected(ss, mass, unit_scale, idx + 1,
                 [results |-> Append(st.results,
                                     [idx |-> idx, vm |-> vm, com |-> com]),
                  total   |-> Add(st.total, vm)])

RECURSIVE VolumeLoop(_, _, _, _, _)
\* for idx, solid in enumerate(solids): ... ; mass[i] is props.Mass().
VolumeLoop(ss, mass, unit_scale, idx, st) ==
    IF idx >= Len(ss) THEN st
    ELSE LET solid == ss[idx + 1]
             vm    == Mul(Dec(mass[idx + 1], 0), unit_scale)
             com   == CentreOfMass(solid)
         IN  VolumeLoop(ss, mass, unit_scale, idx + 1,
                 [results |-> Append(st.results,
                                     [idx |-> idx, vm |-> vm, com |-> com]),
                  total   |-> Add(st.total, vm)])

\* Mutant: unit_scale is not applied to the masses.
solids_volume_Unscaled(ss, mass, unit_scale) ==
    VolumeLoop(ss, mass, Dec(1, 0), 0, [results |-> <<>>, total |-> Dec(0, 0)])

solids_volume(ss, mass, unit_scale) ==
    VolumeLoop(ss, mass, unit_scale, 0, [results |-> <<>>, total |-> Dec(0, 0)])

\* bbox_volume_mm3: the seven values returned, for the box the kernel gives.
bbox_volume_mm3(b) ==
    <<b[1], b[2], b[3], b[4], b[5], b[6],
      (b[4] - b[1]) * (b[5] - b[2]) * (b[6] - b[3])>>

\* The sewn shapes the kernel may return: solids and shells in traversal order.
SewedShapes ==
    { [solids |-> [i \in 1..n |-> [kind |-> "solid", id |-> i]],
       shells |-> [i \in 1..k |-> [id |-> i, done |-> d[i]]]] :
      n \in 0..MaxSolids, k \in 0..MaxShells, d \in [1..MaxShells -> BOOLEAN] }

\* ---------------------------------------------------- cal_fine.py main
FineCheckPath ==
    /\ tool = "cal_fine" /\ pc = "start"
    /\ IF ~stepExists
       THEN /\ stderr' = Append(stderr, [tag |-> "NotFound"])
            /\ SysExit(1)
       ELSE /\ Goto("checked")
            /\ UNCHANGED <<stderr, exitCode>>
    /\ UNCHANGED <<envVars, stdout, calls, loadVars, box, exactVars, meshVars,
                   voxVars, exportVars, viewVars>>

FineRead ==
    /\ tool = "cal_fine" /\ pc = "checked"
    /\ Emit([tag |-> "READ", path |-> args.step])
    /\ \E status \in ReadStatuses :
         LET r == read_step_shape(args.step, status)
         IN  /\ readStatus' = status
             /\ calls' = calls \o r.calls
             /\ shape' = r.value
             /\ IF r.raised
                THEN Uncaught(r.msg)
                ELSE Goto("loaded") /\ UNCHANGED <<stderr, exitCode>>
    /\ UNCHANGED <<envVars, box, exactVars, meshVars, voxVars, exportVars,
                   viewVars>>

FineBBox ==
    /\ tool = "cal_fine" /\ pc = "loaded" /\ args.bbox
    /\ \E b \in Boxes :
         LET bbox_mm3 == bbox_volume_mm3(b)[7]
         IN  /\ box' = b
             /\ Call("brepbndlib_Add", shape)
             /\ Emit([tag |-> "BBox", unit |-> args.unit,
                       fig |-> Fmt6(Mul(Dec(bbox_mm3, 0), UNIT[args.unit]))])
    /\ Goto("bbox_computed")
    /\ UNCHANGED <<envVars, exitCode, stderr, loadVars, exactVars, meshVars,
                   voxVars, exportVars, viewVars>>

\* Mutant: sewing_to_solids(shape) is called without tol, so at its default.
FineSew_DefaultTol ==
    /\ tool = "cal_fine"
    /\ pc = "bbox_computed" \/ (pc = "loaded" /\ ~args.bbox)
    /\ Emit([tag |-> "Sew", tol |-> args.tol])
    /\ Call("BRepBuilderAPI_Sewing", 5)
    /\ \E sw \in SewedShapes :
         LET r == sewing_to_solids(sw)
         IN  /\ sewed' = sw
             /\ solids' = r.solids
             /\ makers' = r.makers
    /\ Goto("reconstruct_attempted")
    /\ UNCHANGED <<envVars, exitCode, stderr, loadVars, box, gprops, infos,
                   total, meshVars, voxVars, exportVars, viewVars>>

FineSew ==
    /\ tool = "cal_fine"
    /\ pc = "bbox_computed" \/ (pc = "loaded" /\ ~args.bbox)
    /\ Emit([tag |-> "Sew", tol |-> args.tol])
    /\ Call("BRepBuilderAPI_Sewing", args.tol)
    /\ \E sw \in SewedShapes :
         LET r == sewing_to_solids(sw)
         IN  /\ sewed' = sw
             /\ solids' = r.solids
             /\ makers' = r.makers
    /\ Goto("reconstruct_attempted")
    /\ UNCHANGED <<envVars, exitCode, stderr, loadVars, box, gprops, infos,
                   total, meshVars, voxVars, exportVars, viewVars>>

FineExact ==
    /\ tool = "cal_fine" /\ pc = "reconstruct_attempted"
    /\ solids # <<>>
    /\ \E mass \in [1..Len(solids) -> Masses] :
         LET r == solids_volume(solids, mass, UNIT[args.unit])
         IN  /\ gprops' = mass
             /\ infos' = r.results
             /\ total' = r.total
    /\ Call("brepgprop_VolumeProperties", Len(solids))
    /\ Goto("exact_done")
    /\ UNCHANGED <<envVars, exitCode, stdout, stderr, loadVars, box, sewed,
                   solids, makers, meshVars, voxVars, exportVars, viewVars>>

SolidLines == [i \in 1..Len(infos) |->
                 [tag |-> "Solid", idx |-> infos[i].idx, unit |-> args.unit,
                  fig |-> Fmt6(infos[i].vm), com |-> infos[i].com]]

\* Mutant: no return after the report of the exact result; main() goes on to
\* the fallback.
FineReportExact_NoReturn ==
    /\ tool = "cal_fine" /\ pc = "exact_done"
    /\ stdout' = stdout \o <<[tag |-> "OK", n |-> Len(infos)]>> \o SolidLines
                        \o <<[tag |-> "Total", unit |-> args.unit,
                              fig |-> Fmt6(total)],
                             [tag |-> "WARN"]>>
    /\ pc' = "voxel_fallback"
    /\ hist' = hist \o <<"reported_exact", "voxel_fallback">>
    /\ UNCHANGED <<envVars, exitCode, stderr, calls, loadVars, box, exactVars,
                   meshVars, voxVars, exportVars, viewVars>>

\* The report of the exact result, and main() returning right after it.
FineReportExact ==
    /\ tool = "cal_fine" /\ pc = "exact_done"
    /\ stdout' = stdout \o <<[tag |-> "OK", n |-> Len(infos)]>> \o SolidLines
                        \o <<[tag |-> "Total", unit |-> args.unit,
                              fig |-> Fmt6(total)]>>
    /\ pc' = "exit"
    /\ hist' = hist \o <<"reported_exact", "exit">>
    /\ exitCode' = 0
    /\ UNCHANGED <<envVars, stderr, calls, loadVars, box, exactVars,
                   meshVars, voxVars, exportVars, viewVars>>

FineFallback ==
    /\ tool = "cal_fine" /\ pc = "reconstruct_attempted"
    /\ solids = <<>>
    /\ Emit([tag |-> "WARN"])
    /\ Goto("voxel_fallback")
    /\ UNCHANGED <<envVars, exitCode, stderr, calls, loadVars, box, exactVars,
                   meshVars, voxVars, exportVars, viewVars>>

\* ---------------------------------- shape_to_pv_mesh (cal_fine.py, voxel1.py)
\* os.path.join(td, "t.stl") in cal_fine.py, os.path.join(td, "tmp.stl") in voxel1.py
TmpStl(t) == IF t = "cal_fine" THEN <<"td", "t.stl">> ELSE <<"td", "tmp.stl">>

AtMeshCall == \/ tool = "cal_fine" /\ pc = "voxel_fallback"
              \/ tool = "voxel1" /\ pc = "converting"

\* with tempfile.TemporaryDirectory() as td:
TmpEnter ==
    /\ AtMeshCall
    /\ tmp' = [dir |-> TRUE, stl |-> FALSE]
    /\ Call("TemporaryDirectory", "td")
    /\ Goto("mesh_write")
    /\ UNCHANGED <<envVars, exitCode, stdout, stderr, loadVars, box, exactVars,
                   exc, mesh, voxVars, exportVars, viewVars>>

\* write_stl_file(shape, tmp_stl): it may raise, leaving a partial file or none.
TmpWrite ==
    /\ pc = "mesh_write"
    /\ Call("write_stl_file", TmpStl(tool))
    /\ \E ok \in BOOLEAN, left \in BOOLEAN :
         IF ok
         THEN /\ tmp' = [tmp EXCEPT !.stl = TRUE]
              /\ exc' = exc
              /\ Goto("mesh_read")
         ELSE /\ tmp' = [tmp EXCEPT !.stl = left]
              /\ exc' = "write"
              /\ Goto("mesh_exit")
    /\ UNCHANGED <<envVars, exitCode, stdout, stderr, loadVars, box, exactVars,
                   mesh, voxVars, exportVars, viewVars>>

\* mesh = pv.read(tmp_stl): it may raise.
TmpRead ==
    /\ pc = "mesh_read"
    /\ Call("pv.read", TmpStl(tool))
    /\ \E ok \in BOOLEAN, n \in 0..MaxPoints :
         IF ok
         THEN mesh' = [n_points |-> n] /\ exc' = exc
         ELSE mesh' = mesh /\ exc' = "read"
    /\ Goto("mesh_exit")
    /\ UNCHANGED <<envVars, exitCode, stdout, stderr, loadVars, box, exactVars,
                   tmp, voxVars, exportVars, viewVars>>

\* Mutant: the directory is removed on the normal path only (no context
\* manager, no finally).
TmpExit_LeakOnError ==
    /\ pc = "mesh_exit"
    /\ IF exc # "none"
       THEN Uncaught(<<"shape_to_pv_mesh: ", exc>>) /\ tmp' = tmp
       ELSE Goto("mesh_done") /\ tmp' = NoTmp /\ UNCHANGED <<exitCode, stderr>>
    /\ UNCHANGED <<envVars, stdout, calls, loadVars, box, exactVars, exc, mesh,
                   voxVars, exportVars, viewVars>>

\* TemporaryDirectory.__exit__: the directory tree is removed, then the
\* function returns the mesh or the exception goes on to the top level.
TmpExit ==
    /\ pc = "mesh_exit"
    /\ tmp' = NoTmp
    /\ IF exc # "none"
       THEN Uncaught(<<"shape_to_pv_mesh: ", exc>>)
       ELSE Goto("mesh_done") /\ UNCHANGED <<exitCode, stderr>>
    /\ UNCHANGED <<envVars, stdout, calls, loadVars, box, exactVars, exc, mesh,
                   voxVars, exportVars, viewVars>>

\* ------------------------------------------- cal_fine.py main, voxel path
\* voxel_volume(mesh, pitch).  On a mesh without points the library either
\* raises or yields a grid without cells.
FineVoxel ==
    /\ tool = "cal_fine" /\ pc = "mesh_done"
    /\ Call("voxelize", args.pitch)
    /\ \/ /\ mesh.n_points = 0
          /\ Uncaught(<<"voxelize: ", "empty mesh">>)
          /\ UNCHANGED voxVars
       \/ /\ \E n \in 0..MaxCells :
               /\ mesh.n_points = 0 => n = 0
               /\ vox' = [n_cells |-> n]
               /\ vol_mm3' = n * (args.pitch * args.pitch * args.pitch)
          /\ Goto("voxel_done")
          /\ UNCHANGED <<exitCode, stderr>>
    /\ UNCHANGED <<envVars, stdout, loadVars, box, exactVars, meshVars,
                   exportVars, viewVars>>

FineReportVoxel ==
    /\ tool = "cal_fine" /\ pc = "voxel_done"
    /\ Emit([tag |-> "Voxel", pitch |-> args.pitch, unit |-> args.unit,
             fig |-> Fmt6(Mul(Dec(vol_mm3, 0), UNIT[args.unit]))])
    /\ Goto("reported_voxel")
    /\ UNCHANGED <<envVars, exitCode, stderr, calls, loadVars, box, exactVars,
                   meshVars, voxVars, exportVars, viewVars>>

\* plotter.add_mesh(obj, name=name): an actor of that name is replaced.
AddMesh(as, name, obj) ==
    {a \in as : a.name # name} \cup {[name |-> name, obj |-> obj]}

RemoveActor(as, name) == {a \in as : a.name # name}

FineShow ==
    /\ tool = "cal_fine" /\ pc = "reported_voxel" /\ args.show
    /\ actors' = AddMesh(AddMesh(actors, <<"mesh">>, <<"mesh">>),
                         <<"voxel">>, <<"vox">>)
    /\ viewer' = "open"
    /\ Call("Plotter.show", "cal_fine")
    /\ Goto("viewing")
    /\ UNCHANGED <<envVars, exitCode, stdout, stderr, loadVars, box, exactVars,
                   meshVars, voxVars, exportVars, picks>>

FineNoShow ==
    /\ tool = "cal_fine" /\ pc = "reported_voxel" /\ ~args.show
    /\ SysExit(0)
    /\ UNCHANGED <<envVars, stdout, stderr, calls, loadVars, box, exactVars,
                   meshVars, voxVars, exportVars, viewVars>>

\* The user closes the window: p.show() returns and so does main().
CloseViewer ==
    /\ pc = "viewing" /\ viewer = "open"
    /\ viewer' = "closed"
    /\ SysExit(0)
    /\ UNCHANGED <<envVars, stdout, stderr, calls, loadVars, box, exactVars,
                   meshVars, voxVars, exportVars, actors, picks>>

\* ------------------------------------------------------ voxel1.py main
UNIT_SCALE == [mm3 |-> Dec(1, 0), cm3 |-> Dec(1, 3), m3 |-> Dec(1, 9)]

convert_volume(v_mm3, unit) == Mul(Dec(v_mm3, 0), UNIT_SCALE[unit])

Voxel1CheckPath ==
    /\ tool = "voxel1" /\ pc = "start"
    /\ IF ~stepExists
       THEN /\ stderr' = Append(stderr, [tag |-> "NotFound", path |-> args.step])
            /\ SysExit(1)
       ELSE /\ Goto("checked")
            /\ UNCHANGED <<stderr, exitCode>>
    /\ UNCHANGED <<envVars, stdout, calls, loadVars, box, exactVars, meshVars,
                   voxVars, exportVars, viewVars>>

Voxel1Read ==
    /\ tool = "voxel1" /\ pc = "checked"
    /\ Emit([tag |-> "INFO-Reading", path |-> args.step])
    /\ \E status \in ReadStatuses :
         LET r == read_step_shape(args.step, status)
         IN  /\ readStatus' = status
             /\ calls' = calls \o r.calls
             /\ shape' = r.value
             /\ IF r.raised
                THEN Uncaught(r.msg)
                ELSE Goto("loaded") /\ UNCHANGED <<stderr, exitCode>>
    /\ UNCHANGED <<envVars, box, exactVars, meshVars, voxVars, exportVars,
                   viewVars>>

Voxel1BBox ==
    /\ tool = "voxel1" /\ pc = "loaded" /\ args.bbox
    /\ \E b \in Boxes :
         LET r == bbox_volume_mm3(b)
             bbox_vol_conv == convert_volume(r[7], args.unit)
         IN  /\ box' = b
             /\ Call("brepbndlib_Add", shape)
             /\ stdout' = stdout \o
                   <<[tag |-> "BoundingBox"],
                     [tag |-> "x", lo |-> r[1], hi |-> r[4]],
                     [tag |-> "y", lo |-> r[2], hi |-> r[5]],
                     [tag |-> "z", lo |-> r[3], hi |-> r[6]],
                     [tag |-> "BBox", unit |-> args.unit,
                      fig |-> Fmt6(bbox_vol_conv)]>>
    /\ Goto("bbox_computed")
    /\ UNCHANGED <<envVars, exitCode, stderr, loadVars, exactVars, meshVars,
                   voxVars, exportVars, viewVars>>

Voxel1Convert ==
    /\ tool = "voxel1"
    /\ pc = "bbox_computed" \/ (pc = "loaded" /\ ~args.bbox)
    /\ Emit([tag |-> "INFO-Converting"])
    /\ Goto("converting")
    /\ UNCHANGED <<envVars, exitCode, stderr, calls, loadVars, box, exactVars,
                   meshVars, voxVars, exportVars, viewVars>>

Voxel1EmptyCheck ==
    /\ tool = "voxel1" /\ pc = "mesh_done"
    /\ IF mesh.n_points = 0
       THEN /\ stderr' = Append(stderr, [tag |-> "EmptyMesh"])
            /\ SysExit(2)
       ELSE /\ Goto("mesh_checked")
            /\ UNCHANGED <<stderr, exitCode>>
    /\ UNCHANGED <<envVars, stdout, calls, loadVars, box, exactVars, meshVars,
                   voxVars, exportVars, viewVars>>

Voxel1Voxel ==
    /\ tool = "voxel1" /\ pc = "mesh_checked"
    /\ Call("voxelize", args.pitch)
    /\ \E n \in 0..MaxCells :
         LET vol == (args.pitch * args.pitch * args.pitch) * n
         IN  /\ vox' = [n_cells |-> n]
             /\ vol_mm3' = vol
             /\ stdout' = stdout \o
                   <<[tag |-> "INFO-Voxelizing", pitch |-> args.pitch],
                     [tag |-> "Pitch", pitch |-> args.pitch],
                     [tag |-> "Cells", n |-> n],
                     [tag |-> "Voxel", pitch |-> args.pitch, unit |-> args.unit,
                      fig |-> Fmt6(convert_volume(vol, args.unit))]>>
    /\ Goto("reported_voxel")
    /\ UNCHANGED <<envVars, exitCode, stderr, loadVars, box, exactVars, meshVars,
                   exportVars, viewVars>>

Voxel1Show ==
    /\ tool = "voxel1" /\ pc = "reported_voxel" /\ args.show
    /\ Emit([tag |-> "INFO-Viewer"])
    /\ actors' = AddMesh(AddMesh(actors, <<"original">>, <<"mesh">>),
                         <<"voxels">>, <<"vox">>)
    /\ viewer' = "open"
    /\ Call("Plotter.show", "voxel1")
    /\ Goto("viewing")
    /\ UNCHANGED <<envVars, exitCode, stderr, loadVars, box, exactVars,
                   meshVars, voxVars, exportVars, picks>>

Voxel1NoShow ==
    /\ tool = "voxel1" /\ pc = "reported_voxel" /\ ~args.show
    /\ SysExit(0)
    /\ UNCHANGED <<envVars, stdout, stderr, calls, loadVars, box, exactVars,
                   meshVars, voxVars, exportVars, viewVars>>

\* -------------------------------------------------------- test.py main
\* Mutant: the message is printed but sys.exit(1) is missing.
TestCheckPath_NoExit ==
    /\ tool = "test" /\ pc = "start"
    /\ IF ~stepExists
       THEN stdout' = stdout \o <<[tag |-> "NotFound", path |-> args.step],
                                  [tag |-> "Extracting", path |-> args.step]>>
       ELSE Emit([tag |-> "Extracting", path |-> args.step])
    /\ Goto("export_read")
    /\ UNCHANGED <<envVars, exitCode, stderr, calls, loadVars, box, exactVars,
                   meshVars, voxVars, exportVars, viewVars>>

TestCheckPath ==
    /\ tool = "test" /\ pc = "start"
    /\ IF ~stepExists
       THEN /\ Emit([tag |-> "NotFound", path |-> args.step])
            /\ SysExit(1)
       ELSE /\ Emit([tag |-> "Extracting", path |-> args.step])
            /\ Goto("export_read")
            /\ UNCHANGED exitCode
    /\ UNCHANGED <<envVars, stderr, calls, loadVars, box, exactVars, meshVars,
                   voxVars, exportVars, viewVars>>

\* export_step_faces_to_stl: reader.ReadFile, TransferRoots, reader.Shape()
ExportRead ==
    /\ tool = "test" /\ pc = "export_read"
    /\ \E status \in ReadStatuses :
         /\ readStatus' = status
         /\ IF status # IFSelect_RetDone
            THEN /\ Call("ReadFile", args.step)
                 /\ Uncaught(<<"STEP read failed: ", args.step>>)
                 /\ shape' = shape
            ELSE /\ calls' = calls \o <<[op |-> "ReadFile", arg |-> args.step],
                                        [op |-> "TransferRoots", arg |-> args.step]>>
                 /\ shape' = "shape"
                 /\ Goto("export_mkdir")
                 /\ UNCHANGED <<stderr, exitCode>>
    /\ UNCHANGED <<envVars, stdout, box, exactVars, meshVars, voxVars,
                   exportVars, viewVars>>

\* os.makedirs(out_dir, exist_ok=True); exp = TopExp_Explorer(shape, TopAbs_FACE)
ExportMkdir ==
    /\ tool = "test" /\ pc = "export_mkdir"
    /\ Call("makedirs", args.out)
    /\ outDirExists' = TRUE
    /\ \E n \in 0..MaxFaces :
         /\ faces' = [i \in 1..n |-> <<"face", i>>]
         /\ exp' = faces'
    /\ face_index' = 0
    /\ out_filenames' = <<>>
    /\ Goto("export_loop")
    /\ UNCHANGED <<envVars, exitCode, stdout, stderr, loadVars, box, exactVars,
                   meshVars, voxVars, outFiles, viewVars>>

\* Mutant: the file names count from one.
FacePath_FromOne(out_dir, k) == <<out_dir, "face_", k + 1, ".stl">>

\* os.path.join(out_dir, f"face_{face_index}.stl")
FacePath(out_dir, k) == <<out_dir, "face_", k, ".stl">>

\* One turn of the while exp.More() loop; write_stl_file may raise.
ExportFace ==
    /\ tool = "test" /\ pc = "export_loop"
    /\ exp # <<>>
    /\ LET face == Head(exp)
           out_filename == FacePath(args.out, face_index)
       IN  /\ Call("write_stl_file", out_filename)
           /\ \E ok \in BOOLEAN :
                IF ok
                THEN /\ outFiles' = Append(outFiles, [name |-> out_filename,
                                                      obj |-> face])
                     /\ out_filenames' = Append(out_filenames, out_filename)
                     /\ Emit([tag |-> "Saved", path |-> out_filename])
                     /\ face_index' = face_index + 1
                     /\ exp' = Tail(exp)
                     /\ UNCHANGED <<pc, hist, exitCode, stderr>>
                ELSE /\ Uncaught(<<"write_stl_file: ", out_filename>>)
                     /\ UNCHANGED <<outFiles, out_filenames, stdout, face_index,
                                    exp>>
    /\ UNCHANGED <<envVars, loadVars, box, exactVars, meshVars, voxVars, faces,
                   outDirExists, viewVars>>

\* return out_filenames, back in main()
ExportReturn ==
    /\ tool = "test" /\ pc = "export_loop"
    /\ exp = <<>>
    /\ Emit([tag |-> "Viewing"])
    /\ Goto("view_enter")
    /\ UNCHANGED <<envVars, exitCode, stderr, calls, loadVars, box, exactVars,
                   meshVars, voxVars, exportVars, viewVars>>

\* load_and_view_faces: if not stl_files: print; return
ViewEmpty ==
    /\ tool = "test" /\ pc = "view_enter"
    /\ out_filenames = <<>>
    /\ Emit([tag |-> "NoStl"])
    /\ SysExit(0)
    /\ UNCHANGED <<envVars, stderr, calls, loadVars, box, exactVars, meshVars,
                   voxVars, exportVars, viewVars>>

\* pv.read(stl_file): the mesh stored in that file.
ReadStl(files, name) == (CHOOSE f \in {files[i] : i \in 1..Len(files)} :
                            f.name = name).obj

RECURSIVE AddAll(_, _, _)
\* for stl_file in stl_files: plotter.add_mesh(pv.read(stl_file), name=stl_file)
AddAll(as, names, files) ==
    IF names = <<>> THEN as
    ELSE AddAll(AddMesh(as, Head(names), ReadStl(files, Head(names))),
                Tail(names), files)

\* load_and_view_faces with files: the plotter is filled, picking is enabled
\* and plotter.show() opens the window.
ViewLoad ==
    /\ tool = "test" /\ pc = "view_enter"
    /\ out_filenames # <<>>
    /\ actors' = AddAll(actors, out_filenames, outFiles)
    /\ viewer' = "open"
    /\ Call("Plotter.show", "test")
    /\ Emit([tag |-> "Guide"])
    /\ Goto("viewing")
    /\ UNCHANGED <<envVars, exitCode, stderr, loadVars, box, exactVars,
                   meshVars, voxVars, exportVars, picks>>

None == <<"None">>

\* Mutant: the earlier highlight is removed only when a mesh was picked.
Pick_KeepOnNone ==
    /\ tool = "test" /\ pc = "viewing" /\ viewer = "open"
    /\ Len(picks) < MaxPicks
    /\ \E picked_mesh \in {a.obj : a \in actors} \cup {None} :
         /\ picks' = Append(picks, picked_mesh)
         /\ IF picked_mesh # None
            THEN /\ actors' = AddMesh(RemoveActor(actors, highlight_actor_name),
                                      highlight_actor_name, picked_mesh)
                 /\ Emit([tag |-> "Highlighted"])
            ELSE /\ actors' = actors
                 /\ Emit([tag |-> "NothingPicked"])
    /\ UNCHANGED <<envVars, pc, hist, exitCode, stderr, calls, loadVars, box,
                   exactVars, meshVars, voxVars, exportVars, viewer>>

\* mesh_pick_callback(picked_mesh), called by the viewer on a pick: with one
\* of the meshes shown, or with None.
Pick ==
    /\ tool = "test" /\ pc = "viewing" /\ viewer = "open"
    /\ Len(picks) < MaxPicks
    /\ \E picked_mesh \in {a.obj : a \in actors} \cup {None} :
         LET removed == RemoveActor(actors, highlight_actor_name)
         IN  /\ picks' = Append(picks, picked_mesh)
             /\ IF picked_mesh # None
                THEN /\ actors' = AddMesh(removed, highlight_actor_name,
                                          picked_mesh)
                     /\ Emit([tag |-> "Highlighted"])
                ELSE /\ actors' = removed
                     /\ Emit([tag |-> "NothingPicked"])
    /\ UNCHANGED <<envVars, pc, hist, exitCode, stderr, calls, loadVars, box,
                   exactVars, meshVars, voxVars, exportVars, viewer>>

\* ----------------------------------------------------- cal_box.py main
BoxCheckPath ==
    /\ tool = "cal_box" /\ pc = "start"
    /\ IF ~stepExists
       THEN /\ Emit([tag |-> "NotFound", path |-> args.step])
            /\ SysExit(1)
       ELSE /\ Goto("checked")
            /\ UNCHANGED <<stdout, exitCode>>
    /\ UNCHANGED <<envVars, stderr, calls, loadVars, box, exactVars, meshVars,
                   voxVars, exportVars, viewVars>>

\* compute_bbox_volume(step_file)
BoxCompute ==
    /\ tool = "cal_box" /\ pc = "checked"
    /\ \E status \in ReadStatuses :
         /\ readStatus' = status
         /\ IF status # IFSelect_RetDone
            THEN /\ Call("ReadFile", args.step)
                 /\ Uncaught(<<"STEP read failed: ", args.step>>)
                 /\ UNCHANGED <<shape, box>>
            ELSE /\ calls' = calls \o <<[op |-> "ReadFile", arg |-> args.step],
                                        [op |-> "TransferRoots", arg |-> args.step],
                                        [op |-> "brepbndlib_Add", arg |-> "shape"]>>
                 /\ shape' = "shape"
                 /\ \E b \in Boxes : box' = b
                 /\ Goto("bbox_computed")
                 /\ UNCHANGED <<stderr, exitCode>>
    /\ UNCHANGED <<envVars, stdout, exactVars, meshVars, voxVars, exportVars,
                   viewVars>>

BoxReport ==
    /\ tool = "cal_box" /\ pc = "bbox_computed"
    /\ LET r == bbox_volume_mm3(box)
           scale == UNIT[args.unit]
           vol_conv == Mul(Dec(r[7], 0), scale)
       IN  stdout' = stdout \o
               <<[tag |-> "BoundingBox"],
                 [tag |-> "x", lo |-> r[1], hi |-> r[4]],
                 [tag |-> "y", lo |-> r[2], hi |-> r[5]],
                 [tag |-> "z", lo |-> r[3], hi |-> r[6]],
                 [tag |-> "BBox", unit |-> args.unit, fig |-> Fmt6(vol_conv)]>>
    /\ SysExit(0)
    /\ UNCHANGED <<envVars, stderr, calls, loadVars, box, exactVars, meshVars,
                   voxVars, exportVars, viewVars>>

\* ------------------------------------------------------- specification
\* The steps the interpreter takes on its own.
ProgramStep ==
    \/ FineCheckPath \/ FineRead \/ FineBBox \/ FineSew \/ FineExact
    \/ FineReportExact \/ FineFallback
    \/ TmpEnter \/ TmpWrite \/ TmpRead \/ TmpExit
    \/ FineVoxel \/ FineReportVoxel \/ FineShow \/ FineNoShow
    \/ Voxel1CheckPath \/ Voxel1Read \/ Voxel1BBox \/ Voxel1Convert
    \/ Voxel1EmptyCheck \/ Voxel1Voxel \/ Voxel1Show \/ Voxel1NoShow
    \/ TestCheckPath \/ ExportRead \/ ExportMkdir \/ ExportFace
    \/ ExportReturn \/ ViewEmpty \/ ViewLoad
    \/ BoxCheckPath \/ BoxCompute \/ BoxReport

\* The steps the user of the viewer window takes.
UserStep == Pick \/ CloseViewer

Next == ProgramStep \/ UserStep

Spec == Init /\ [][Next]_vars

\* The script is sequential and every library call returns or raises, so the
\* interpreter keeps stepping; the user of the viewer is not obliged to act.
LiveSpec == Spec /\ WF_vars(ProgramStep)

\* ============================================================== claims
HasLine(tag) == \E i \in 1..Len(stdout) : stdout[i].tag = tag
HasErr(tag)  == \E i \in 1..Len(stderr) : stderr[i].tag = tag
Called(op)   == \E i \in 1..Len(calls) : calls[i].op = op
CallsOf(op)  == SelectSeq(calls, LAMBDA c : c.op = op)
Passed(p)    == \E i \in 1..Len(hist) : hist[i] = p

ExactReported  == HasLine("Total")
ApproxReported == HasLine("Voxel")
ApproxInvoked  == Called("TemporaryDirectory") \/ Called("voxelize")
Reconstructed  == tool = "cal_fine" /\ Passed("reconstruct_attempted")

\* C1 (as stated): in cal_fine.main, once reconstruction has run, the exact
\* result is reported iff sewing_to_solids returned a non-empty list, the voxel
\* approximator is invoked iff the list is empty, and every finished run has
\* reported exactly one of the two volumes.
C1_ExactlyOneResultEveryRun ==
    Reconstructed =>
        /\ ExactReported => solids # <<>>
        /\ ApproxInvoked => solids = <<>>
        /\ pc = "exit" =>
             /\ ExactReported <=> solids # <<>>
             /\ ApproxInvoked <=> solids = <<>>
             /\ ExactReported # ApproxReported

\* C1 (amended): as above, but exactly one of the two volumes is reported by
\* every run that finishes with exit status 0; a run whose fallback fails with
\* an exception reports neither, and no run reports both.
C1_ExactIffSolidsNonEmpty ==
    Reconstructed =>
        /\ ExactReported => solids # <<>>
        /\ ApproxInvoked => solids = <<>>
        /\ ~(ExactReported /\ ApproxReported)
        /\ pc = "exit" =>
             /\ ExactReported <=> solids # <<>>
             /\ ApproxInvoked <=> solids = <<>>
             /\ exitCode = 0 => (ExactReported # ApproxReported)

\* A finished exact run whose solids' volumes sum to zero.
C1_Witness ==
    /\ Reconstructed /\ pc = "exit" /\ exitCode = 0
    /\ solids # <<>> /\ total.m = 0 /\ ExactReported /\ ~ApproxInvoked

FigTags == {"BBox", "Solid", "Total", "Voxel"}
FigurePrinted == \E i \in 1..Len(stdout) : stdout[i].tag \in FigTags

\* C2: in every tool, when the --step path does not exist, the run ends with
\* exit code 1 at its first step: no kernel, filesystem or mesh-library call is
\* made, no temporary or output file exists, no viewer opens and no volume
\* figure is printed.
C2_MissingFileExitsFirst ==
    ~stepExists =>
        /\ calls = <<>>
        /\ shape = "none" /\ readStatus = "none"
        /\ tmp = NoTmp /\ outFiles = <<>>
        /\ viewer = "none"
        /\ ~FigurePrinted
        /\ pc # "start" => (pc = "exit" /\ exitCode = 1 /\ Len(hist) = 2)

C2_Witness == ~stepExists /\ pc = "exit" /\ exitCode = 1 /\ tool = "test"

\* C3: whenever the voxel approximator is reached with a mesh without points,
\* in cal_fine as in voxel1, the run ends with the explicit empty-mesh error,
\* an exit code other than 0 and 1, and no approximate volume printed.
C3_EmptyMeshIsExplicitError ==
    (tool \in {"cal_fine", "voxel1"} /\ mesh.n_points = 0 /\ pc = "exit") =>
        /\ exitCode \notin {0, 1}
        /\ HasErr("EmptyMesh")
        /\ ~ApproxReported

\* The native value scaled once by the factor of the unit.
UnitExponent(unit) == CASE unit = "mm3" -> 0 [] unit = "cm3" -> 3 [] unit = "m3" -> 9
ScaledOnce(v_mm3, unit) == Fmt6(Dec(v_mm3, UnitExponent(unit)))

RECURSIVE SumTo(_, _)
SumTo(f, n) == IF n = 0 THEN 0 ELSE SumTo(f, n - 1) + f[n]

\* The cubic-millimetre value behind a printed figure.
NativeOf(line) ==
    CASE line.tag = "BBox"  -> bbox_volume_mm3(box)[7]
      [] line.tag = "Solid" -> gprops[line.idx + 1]
      [] line.tag = "Total" -> SumTo(gprops, Len(gprops))
      [] line.tag = "Voxel" -> vox.n_cells * args.pitch * args.pitch * args.pitch

\* C4: every volume figure cal_fine prints (bounding box, each solid, the
\* total, the voxel volume) is the native mm^3 value scaled exactly once by the
\* factor of --unit (mm3 1, cm3 1/1000, m3 1/1e9), printed with six decimals.
C4_FiguresScaledOnce ==
    tool = "cal_fine" =>
        \A i \in 1..Len(stdout) :
            stdout[i].tag \in FigTags =>
                /\ stdout[i].unit = args.unit
                /\ stdout[i].fig = ScaledOnce(NativeOf(stdout[i]), args.unit)

\* A finished exact run in cm3 whose box, solid and total figures are not zero.
C4_Witness ==
    /\ tool = "cal_fine" /\ pc = "exit" /\ args.unit = "cm3"
    /\ \E i, j, k \in 1..Len(stdout) :
         /\ stdout[i].tag = "BBox" /\ stdout[i].fig = 1000000
         /\ stdout[j].tag = "Solid" /\ stdout[j].fig = 600000
         /\ stdout[k].tag = "Total" /\ stdout[k].fig = 1200000

ReadFailed == readStatus \notin {"none", IFSelect_RetDone}

\* C5: in cal_fine, when ReadFile reports a status other than RetDone,
\* read_step_shape raises an error whose message names the path and yields no
\* shape; the run ends with a non-zero status, the read is the only call made
\* (no bounding box, sewing or voxelization, no second read).
C5_ReadFailureIsFatal ==
    (tool = "cal_fine" /\ ReadFailed) =>
        /\ shape = "none"
        /\ pc = "exit" /\ exitCode > 0
        /\ stderr # <<>>
        /\ stderr[Len(stderr)].tag = "Traceback"
        /\ stderr[Len(stderr)].msg[2] = args.step
        /\ calls = <<[op |-> "ReadFile", arg |-> args.step]>>
        /\ box = <<>> /\ sewed = NoSewed /\ tmp = NoTmp /\ vox = NoVox
        /\ ~FigurePrinted

C5_Witness == tool = "cal_fine" /\ readStatus = "RetFail" /\ pc = "exit"

InShapeToPvMesh == pc \in {"mesh_write", "mesh_read", "mesh_exit"}

\* C6: outside shape_to_pv_mesh neither the temporary directory nor the STL
\* file in it exists: they are gone once the function is left, by return or by
\* an error in writing or reading the STL, and so when the run ends.
C6_TempFilesRemoved ==
    ~InShapeToPvMesh => (~tmp.dir /\ ~tmp.stl)

\* A run ended by an error in reading the STL back, after it was written.
C6_Witness ==
    /\ pc = "exit" /\ exc = "read" /\ Called("write_stl_file")
    /\ Called("pv.read") /\ exitCode = 1

\* The state of the pipeline's state machine that a position stands for.
PhaseOf(p) ==
    CASE p = "start"                 -> "START"
      [] p = "loaded"                -> "LOADED"
      [] p = "bbox_computed"         -> "BBOX_COMPUTED"
      [] p = "reconstruct_attempted" -> "RECONSTRUCT_ATTEMPTED"
      [] p = "exact_done"            -> "EXACT_DONE"
      [] p = "voxel_fallback"        -> "VOXEL_FALLBACK"
      [] p = "voxel_done"            -> "VOXEL_DONE"
      [] p \in {"reported_exact", "reported_voxel"} -> "REPORTED"
      [] OTHER                       -> "-"

RECURSIVE PhasesOf(_)
PhasesOf(h) ==
    IF h = <<>> THEN <<>>
    ELSE IF PhaseOf(Head(h)) = "-" THEN PhasesOf(Tail(h))
    ELSE <<PhaseOf(Head(h))>> \o PhasesOf(Tail(h))

IsPrefix(a, b) == Len(a) <= Len(b) /\ SubSeq(b, 1, Len(a)) = a

\* The two complete runs of the state machine, with or without the box.
PipelineRuns(withBox) ==
    LET head == IF withBox THEN <<"START", "LOADED", "BBOX_COMPUTED">>
                           ELSE <<"START", "LOADED">>
    IN  { head \o <<"RECONSTRUCT_ATTEMPTED", "EXACT_DONE", "REPORTED">>,
          head \o <<"RECONSTRUCT_ATTEMPTED", "VOXEL_FALLBACK", "VOXEL_DONE",
                     "REPORTED">> }

C7_Order ==
    tool = "cal_fine" =>
        /\ \E run \in PipelineRuns(args.bbox) : IsPrefix(PhasesOf(hist), run)
        /\ \A i, j \in 1..Len(hist) : i # j => hist[i] # hist[j]
        /\ CallsOf("BRepBuilderAPI_Sewing") =
              IF Passed("reconstruct_attempted")
              THEN <<[op |-> "BRepBuilderAPI_Sewing", arg |-> args.tol]>>
              ELSE <<>>
        /\ Len(CallsOf("voxelize")) <= 1
        /\ \A i \in 1..Len(calls) :
              calls[i].op = "voxelize" => calls[i].arg = args.pitch
        /\ Passed("voxel_done") => Called("voxelize")

C7_Terminal ==
    pc = "exit" \/ Passed("reported_exact") \/ Passed("reported_voxel")

\* C7: a cal_fine run passes through START, LOADED, BBOX_COMPUTED (only with
\* --bbox, between load and reconstruction), RECONSTRUCT_ATTEMPTED, then
\* EXACT_DONE or VOXEL_FALLBACK and VOXEL_DONE, then REPORTED, entering no
\* state twice; sewing runs exactly once, at --tol; voxelization at most once,
\* at --pitch; and a run that has loaded its shape reaches REPORTED or ends.
C7_LinearPipeline ==
    /\ []C7_Order
    /\ (tool = "cal_fine" /\ pc = "loaded") ~> C7_Terminal

\* A fallback run with --bbox, a tolerance and a pitch other than the defaults,
\* at REPORTED.
C7_Witness ==
    /\ tool = "cal_fine" /\ pc = "reported_voxel" /\ args.bbox
    /\ args.tol = 10 /\ args.pitch = 2
    /\ PhasesOf(hist) = <<"START", "LOADED", "BBOX_COMPUTED",
                          "RECONSTRUCT_ATTEMPTED", "VOXEL_FALLBACK",
                          "VOXEL_DONE", "REPORTED">>

Shown(name) == \E a \in actors : a.name = name

\* C8: a cal_fine run with --show that ends with status 0 has opened the
\* viewer with the surface mesh, on the exact and on the fallback path, and
\* with the voxel grid as well exactly when the fallback was taken.
C8_ShowOpensViewer ==
    (tool = "cal_fine" /\ args.show /\ pc = "exit" /\ exitCode = 0) =>
        /\ viewer # "none"
        /\ Called("Plotter.show")
        /\ Shown(<<"mesh">>)
        /\ Shown(<<"voxel">>) <=> solids = <<>>

ExportReturned == tool = "test" /\ Passed("view_enter")

\* C9: when export_step_faces_to_stl returns for a shape with n faces, the
\* output directory exists, exactly n files were written, the k-th face
\* discovered to face_(k-1).stl, the returned list holds those n paths in
\* that order, and for n = 0 the list is empty and no viewer is opened.
C9_FacesExportedInOrder ==
    ExportReturned =>
        LET n == Len(faces)
        IN  /\ outDirExists /\ Called("makedirs")
            /\ Len(outFiles) = n /\ Len(out_filenames) = n
            /\ Len(CallsOf("write_stl_file")) = n
            /\ \A k \in 1..n :
                 /\ outFiles[k].name = <<args.out, "face_", k - 1, ".stl">>
                 /\ outFiles[k].obj = faces[k]
                 /\ out_filenames[k] = outFiles[k].name
            /\ n = 0 => (viewer = "none" /\ ~Called("Plotter.show"))

\* The export of as many faces as the bound allows has returned.
C9_Witness ==
    /\ ExportReturned /\ Len(faces) >= 2 /\ Len(out_filenames) = Len(faces)

\* The solids built from the shells whose classification succeeds, in order.
QualifyingShells(shells) ==
    LET ok == SelectSeq(shells, LAMBDA sh : sh.done)
    IN  [i \in 1..Len(ok) |-> [kind |-> "made", id |-> ok[i].id]]

\* C10: sewing_to_solids returns the sewn shape's solids in traversal order,
\* examining no shell, when there is at least one; otherwise the solids made
\* from the shells whose MakeSolid IsDone, in shell order; the result is empty
\* exactly when there is no solid and no shell qualifies, and the call then
\* returns normally.
C10_SolidsThenShells ==
    Reconstructed =>
        /\ sewed.solids # <<>> => (solids = sewed.solids /\ makers = <<>>)
        /\ sewed.solids = <<>> => solids = QualifyingShells(sewed.shells)
        /\ solids = <<>> <=>
             /\ sewed.solids = <<>>
             /\ \A i \in 1..Len(sewed.shells) : ~sewed.shells[i].done
        /\ \A i \in 1..Len(hist) - 1 :
             hist[i] \in {"loaded", "bbox_computed"} => hist[i + 1] # "exit"

\* No solid in the sewn shape, two shells, of which only the second qualifies.
C10_Witness ==
    /\ Reconstructed /\ sewed.solids = <<>> /\ Len(sewed.shells) >= 2
    /\ ~sewed.shells[1].done /\ sewed.shells[2].done
    /\ solids = <<[kind |-> "made", id |-> 2]>>

VolumesComputed == tool = "cal_fine" /\ Passed("exact_done")

\* C11: solids_volume returns one entry per input solid, in input order, with
\* idx 0..n-1 and the centre of mass of that solid; each volume is the mass the
\* kernel computed for that solid times the unit factor, its sign kept and no
\* solid left out; and the total is the sum of the returned volumes.
C11_VolumesInOrderAsComputed ==
    VolumesComputed =>
        /\ Len(infos) = Len(solids) /\ Len(gprops) = Len(solids)
        /\ \A i \in 1..Len(infos) :
             /\ infos[i].idx = i - 1
             /\ infos[i].com = <<"com", solids[i].kind, solids[i].id>>
             /\ infos[i].vm.m = gprops[i]
             /\ infos[i].vm.e = UnitExponent(args.unit)
        /\ total.m = SumTo([i \in 1..Len(infos) |-> infos[i].vm.m], Len(infos))
        /\ total.e = UnitExponent(args.unit)

\* Two solids made from shells, the larger volume first and the second one
\* negative, in cm3.
C11_Witness ==
    /\ VolumesComputed /\ args.unit = "cm3" /\ Len(solids) >= 2
    /\ solids[1].kind = "made" /\ gprops[1] = 600 /\ gprops[2] = -600
    /\ infos[2].vm = Dec(-600, 3) /\ total.m = SumTo(gprops, Len(gprops))

ViewerLoaded == tool = "test" /\ Passed("viewing")
Highlights   == {a \in actors : a.name = highlight_actor_name}

\* C12: in the face viewer, after any sequence of pick callbacks, the plotter
\* holds at most one highlight actor; it holds one exactly when the most recent
\* pick had a mesh, and that actor shows that mesh; and each per-face mesh
\* added at load time is still there, once, under its file name.
C12_SingleHighlight ==
    ViewerLoaded =>
        /\ Cardinality(Highlights) <= 1
        /\ Highlights # {} <=> (picks # <<>> /\ picks[Len(picks)] # None)
        /\ \A a \in Highlights : a.obj = picks[Len(picks)]
        /\ \A k \in 1..Len(out_filenames) :
             {a \in actors : a.name = out_filenames[k]} =
                 {[name |-> out_filenames[k], obj |-> faces[k]]}
        /\ Cardinality(actors) = Len(out_filenames) + Cardinality(Highlights)

\* Two picks of different faces: the highlight shows the second one.
C12_Witness ==
    /\ ViewerLoaded /\ Len(picks) >= 2
    /\ picks[1] # None /\ picks[2] # None /\ picks[1] # picks[2]
    /\ Highlights = {[name |-> highlight_actor_name, obj |-> picks[2]]}
====
